---- MODULE Spec2Model ----
(***************************************************************************)
(* Model of the Slack event listener of src/main.py: handle_app_mention,   *)
(* the handler slack_bolt runs once per app_mention event.  Each delivered *)
(* event has its own invocation (its own locals and program counter); all  *)
(* invocations post through say into the same channel log.                 *)
(*                                                                         *)
(* Strings the code takes apart (the event text) are sequences of          *)
(* characters; an f-string is the sequence of its fragments.  The logger   *)
(* calls (lines 117, 127, 133) write to the log stream only and change no  *)
(* program state; they are part of the step they follow.                   *)
(***************************************************************************)
EXTENDS Integers, Sequences, FiniteSets, TLC

\* ---------------------------------------------------------------- bounds
MaxLen == 3
NumSessions == 2

\* ---------------------------------------------------------------- inputs
Alphabet == {"@", " ", "a"}
Users == {"U1", "U2"}
Texts == UNION {[1..n -> Alphabet] : n \in 0..MaxLen}

\* Outcome of one call of say: it returns (the message is in the channel)
\* or it raises (a Slack API error, nothing posted).
SayOutcomes == {"ok", "raise"}

\* Event bodies: the 'event' key may be missing; inside it 'text' and 'user'
\* may each be missing.
NoEventBody == [type |-> "event_callback"]
EventBody(ev) == [type |-> "event_callback", event |-> ev]
Events ==
    {[type |-> "app_mention"]}
    \cup {[type |-> "app_mention", user |-> u] : u \in Users}
    \cup {[type |-> "app_mention", text |-> t] : t \in Texts}
    \cup {[type |-> "app_mention", text |-> t, user |-> u] : t \in Texts, u \in Users}
Bodies == {NoEventBody} \cup {EventBody(ev) : ev \in Events}

\* The bodies used when several events are handled concurrently.
ConcBodies ==
    { NoEventBody,
      EventBody([type |-> "app_mention", text |-> <<"@", "a">>, user |-> "U1"]),
      EventBody([type |-> "app_mention", text |-> <<"@", " ", "a">>, user |-> "U1"]),
      EventBody([type |-> "app_mention", text |-> <<"@", " ", "a">>, user |-> "U2"]) }

\* ---------------------------------------------------------------- exceptions
NoExc == [kind |-> "None", msg |-> <<>>]
KeyError(k) == [kind |-> "KeyError", msg |-> <<"'", k, "'">>]
IndexError == [kind |-> "IndexError", msg |-> <<"list index out of range">>]
SlackApiError == [kind |-> "SlackApiError", msg |-> <<"The request to the Slack API failed.">>]

\* str(e), as the f-string of line 134 formats it.
Str(exc) == exc.msg

\* ---------------------------------------------------------------- str.split
HasSep(s) == \E i \in 1..Len(s) : s[i] = " "
FirstSep(s) == CHOOSE i \in 1..Len(s) : s[i] = " " /\ \A j \in 1..(i-1) : s[j] # " "

\* s.split(' ', maxsplit): cut at each of the first maxsplit separators
\* (all of them when maxsplit is negative); adjacent separators are not merged.
RECURSIVE PySplit(_, _)
PySplit(s, maxsplit) ==
    IF maxsplit = 0 \/ ~HasSep(s)
    THEN <<s>>
    ELSE <<SubSeq(s, 1, FirstSep(s) - 1)>>
         \o PySplit(SubSeq(s, FirstSep(s) + 1, Len(s)), maxsplit - 1)

SplitEvery(text) == PySplit(text, -1)
\* body['event']['text'].split(' ', 1)
SplitMention(text) == PySplit(text, 1)

PickLast(parts) == Len(parts)
\* the subscript [1] of line 114, as a 1-based position
MentionIndex(parts) == 2

\* The exception line 114 raises on body, NoExc when it raises none.
SplitError(b) ==
    IF "event" \notin DOMAIN b THEN KeyError("event")
    ELSE IF "text" \notin DOMAIN b.event THEN KeyError("text")
    ELSE IF MentionIndex(SplitMention(b.event.text)) > Len(SplitMention(b.event.text))
         THEN IndexError
    ELSE NoExc

\* The first exception lines 114-115 raise on body, NoExc when they raise none.
ParseError(b) ==
    IF SplitError(b) # NoExc THEN SplitError(b)
    ELSE IF "user" \notin DOMAIN b.event THEN KeyError("user")
    ELSE NoExc

TextWithoutMention(b) ==
    SplitMention(b.event.text)[MentionIndex(SplitMention(b.event.text))]

\* ---------------------------------------------------------------- messages
AckMsg(uid) == <<"Hey <@", uid, ">, I'm on it! Let me check the data for you...">>
SuccessMsg(resp) == <<"Here is what I found:\n\n">> \o resp.output
FailureMsg(exc) ==
    <<"Oops! I ran into an issue. Could you please rephrase your request? The error was: ">>
    \o Str(exc)

AgentEcho(question) == [input |-> question, output |-> question]
\* line 125: the stub that stands in for sql_agent.invoke
AgentResponse(question) == [input |-> question, output |-> <<"Hello World!">>]

CatchesKeyErrorOnly(exc) == exc.kind = "KeyError"
\* line 132: except Exception
Catches(exc) == exc.kind \in {"KeyError", "IndexError", "SlackApiError"}

SharedSlot(s) == 1
\* the locals of handle_app_mention belong to the invocation
LocalSlot(s) == s

AfterAckSwallow(o) == "invoke"
\* where control goes after say(ack) of line 120
AfterAck(o) == IF o = "ok" THEN "invoke" ELSE "raise"

AfterReplyFinally(o) == "raise"
\* where control goes after say(final answer) of line 130
AfterReply(o) == IF o = "ok" THEN "done" ELSE "raise"

\* ---------------------------------------------------------------- state
VARIABLES
    body,                  \* event id -> the body the handler was called with
    pc,                    \* event id -> position of its invocation
    text_without_mention,  \* local of handle_app_mention
    user_id,               \* local of handle_app_mention
    response,              \* local of handle_app_mention
    e,                     \* the exception bound by the except clause
    propagated,            \* event id -> an exception left the handler
    sayOutcomes,           \* event id -> outcomes of its say calls so far
    posted                 \* the channel: messages posted, in order

vars == <<body, pc, text_without_mention, user_id, response, e, propagated,
          sayOutcomes, posted>>

Sessions == DOMAIN body

InitLocals ==
    /\ pc = [s \in Sessions |-> "parse"]
    /\ text_without_mention = [s \in Sessions |-> <<>>]
    /\ user_id = [s \in Sessions |-> ""]
    /\ response = [s \in Sessions |-> [input |-> <<>>, output |-> <<>>]]
    /\ e = [s \in Sessions |-> NoExc]
    /\ propagated = [s \in Sessions |-> FALSE]
    /\ sayOutcomes = [s \in Sessions |-> <<>>]
    /\ posted = <<>>

\* one event, any body
Init ==
    /\ body \in [{1} -> Bodies]
    /\ InitLocals

\* NumSessions events handled at the same time
InitConc ==
    /\ body \in [1..NumSessions -> ConcBodies]
    /\ InitLocals

\* ---------------------------------------------------------------- steps
\* say(m) with outcome o
Say(s, m, o) ==
    /\ sayOutcomes' = [sayOutcomes EXCEPT ![s] = Append(@, o)]
    /\ posted' = IF o = "ok" THEN Append(posted, [event |-> s, msg |-> m]) ELSE posted

\* an exception raised inside the try block
Raise(s, exc) ==
    /\ e' = [e EXCEPT ![s] = exc]
    /\ pc' = [pc EXCEPT ![s] = IF Catches(exc) THEN "except" ELSE "done"]
    /\ propagated' = [propagated EXCEPT ![s] = ~Catches(exc)]

\* lines 114-117
Parse(s) ==
    /\ pc[s] = "parse"
    /\ text_without_mention' =
          IF SplitError(body[s]) = NoExc
          THEN [text_without_mention EXCEPT ![LocalSlot(s)] = TextWithoutMention(body[s])]
          ELSE text_without_mention
    /\ IF ParseError(body[s]) # NoExc
       THEN /\ Raise(s, ParseError(body[s]))
            /\ UNCHANGED user_id
       ELSE /\ user_id' = [user_id EXCEPT ![LocalSlot(s)] = body[s].event.user]
            /\ pc' = [pc EXCEPT ![s] = "ack"]
            /\ UNCHANGED <<e, propagated>>
    /\ UNCHANGED <<body, response, sayOutcomes, posted>>

\* line 120
Ack(s) ==
    /\ pc[s] = "ack"
    /\ \E o \in SayOutcomes :
          /\ Say(s, AckMsg(user_id[LocalSlot(s)]), o)
          /\ IF AfterAck(o) = "raise"
             THEN Raise(s, SlackApiError)
             ELSE /\ pc' = [pc EXCEPT ![s] = AfterAck(o)]
                  /\ UNCHANGED <<e, propagated>>
    /\ UNCHANGED <<body, text_without_mention, user_id, response>>

\* lines 125-127
Invoke(s) ==
    /\ pc[s] = "invoke"
    /\ response' = [response EXCEPT ![LocalSlot(s)] =
                        AgentResponse(text_without_mention[LocalSlot(s)])]
    /\ pc' = [pc EXCEPT ![s] = "reply"]
    /\ UNCHANGED <<body, text_without_mention, user_id, e, propagated, sayOutcomes, posted>>

\* line 130
Reply(s) ==
    /\ pc[s] = "reply"
    /\ \E o \in SayOutcomes :
          /\ Say(s, SuccessMsg(response[LocalSlot(s)]), o)
          /\ IF AfterReply(o) = "raise"
             THEN Raise(s, SlackApiError)
             ELSE /\ pc' = [pc EXCEPT ![s] = AfterReply(o)]
                  /\ UNCHANGED <<e, propagated>>
    /\ UNCHANGED <<body, text_without_mention, user_id, response>>

\* lines 132-134: an exception raised by this say leaves the handler
Except(s) ==
    /\ pc[s] = "except"
    /\ \E o \in SayOutcomes :
          /\ Say(s, FailureMsg(e[s]), o)
          /\ propagated' = [propagated EXCEPT ![s] = (o = "raise")]
    /\ pc' = [pc EXCEPT ![s] = "done"]
    /\ UNCHANGED <<body, text_without_mention, user_id, response, e>>

Next ==
    \E s \in Sessions :
        \/ Parse(s)
        \/ Ack(s)
        \/ Invoke(s)
        \/ Reply(s)
        \/ Except(s)

Spec == Init /\ [][Next]_vars
SpecConc == InitConc /\ [][Next]_vars

\* ---------------------------------------------------------------- properties
\* the messages event s has had posted, in order
Msgs(s) ==
    LET sel == SelectSeq(posted, LAMBDA p : p.event = s)
    IN  [i \in 1..Len(sel) |-> sel[i].msg]

IsAck(m) == m[1] = "Hey <@"
IsSuccess(m) == m[1] = "Here is what I found:\n\n"
IsFailure(m) ==
    m[1] = "Oops! I ran into an issue. Could you please rephrase your request? The error was: "
IsFinal(m) == IsSuccess(m) \/ IsFailure(m)

\* sub occurs in m as a run of consecutive fragments
Contains(m, sub) ==
    \E i \in 1..Len(m) : i + Len(sub) - 1 <= Len(m) /\ SubSeq(m, i, i + Len(sub) - 1) = sub

NoSayRaised(s) == \A i \in 1..Len(sayOutcomes[s]) : sayOutcomes[s][i] = "ok"

\* the event is malformed: a key is missing or the text has no space
Malformed(b) ==
    \/ "event" \notin DOMAIN b
    \/ "text" \notin DOMAIN b.event
    \/ "user" \notin DOMAIN b.event
    \/ \A i \in 1..Len(b.event.text) : b.event.text[i] # " "

\* the part of text t after its first space
AfterFirstSpace(t) ==
    LET i == CHOOSE k \in 1..Len(t) : t[k] = " " /\ \A j \in 1..(k-1) : t[j] # " "
    IN  [k \in 1..(Len(t) - i) |-> t[i + k]]

\* C1: no message posted for an event contains the text of the exception
\* that event's handler caught.
C1_NoExceptionText ==
    \A s \in Sessions :
        e[s] # NoExc =>
            \A i \in 1..Len(Msgs(s)) : ~Contains(Msgs(s)[i], Str(e[s]))

\* C2 (as stated): every final message, Success or Failure, has the
\* acknowledgment of its event posted before it.
C2_AckBeforeEveryFinal ==
    \A s \in Sessions :
        \A i \in 1..Len(Msgs(s)) :
            IsFinal(Msgs(s)[i]) => \E j \in 1..(i-1) : IsAck(Msgs(s)[j])

\* C2 (amended): the acknowledgment, when posted, is the first message of its
\* event; a Success message always has the acknowledgment before it; a Failure
\* message has no acknowledgment before it only when the event is malformed or
\* the acknowledgment's say raised.
C2_AckBeforeSuccess ==
    \A s \in Sessions :
        \A i \in 1..Len(Msgs(s)) :
            /\ IsAck(Msgs(s)[i]) => i = 1
            /\ IsSuccess(Msgs(s)[i]) => i = 2 /\ IsAck(Msgs(s)[1])
            /\ (IsFailure(Msgs(s)[i]) /\ i = 1) =>
                   Malformed(body[s]) \/ sayOutcomes[s][1] = "raise"

C2_Witness ==
    \E s \in Sessions :
        /\ Len(Msgs(s)) = 2
        /\ IsAck(Msgs(s)[1])
        /\ IsSuccess(Msgs(s)[2])

\* C3: when no say raised, a finished handler has posted at least one message
\* and let no exception out, whatever the event body.
C3_AlwaysResponds ==
    \A s \in Sessions :
        (pc[s] = "done" /\ NoSayRaised(s)) =>
            Len(Msgs(s)) >= 1 /\ ~propagated[s]

C3_Witness ==
    \E s \in Sessions :
        /\ pc[s] = "done"
        /\ NoSayRaised(s)
        /\ "event" \in DOMAIN body[s]
        /\ "text" \in DOMAIN body[s].event
        /\ Malformed(body[s])
        /\ e[s].kind = "IndexError"
        /\ Len(Msgs(s)) = 1

\* C4: when no say raised, a finished handler has posted exactly one final
\* message, a Success or a Failure.
C4_ExactlyOneTerminal ==
    \A s \in Sessions :
        (pc[s] = "done" /\ NoSayRaised(s)) =>
            Cardinality({i \in 1..Len(Msgs(s)) : IsFinal(Msgs(s)[i])}) = 1

C4_Witness ==
    \E s \in Sessions :
        /\ pc[s] = "done"
        /\ NoSayRaised(s)
        /\ Len(Msgs(s)) = 2
        /\ IsSuccess(Msgs(s)[2])

\* what one invocation posts on body b when its say calls have outcomes outs
RunAlone(b, outs) ==
    IF ParseError(b) # NoExc
    THEN IF outs[1] = "ok" THEN <<FailureMsg(ParseError(b))>> ELSE <<>>
    ELSE IF outs[1] = "raise"
    THEN IF outs[2] = "ok" THEN <<FailureMsg(SlackApiError)>> ELSE <<>>
    ELSE IF outs[2] = "ok"
    THEN <<AckMsg(b.event.user), SuccessMsg(AgentResponse(TextWithoutMention(b)))>>
    ELSE <<AckMsg(b.event.user)>>
         \o (IF outs[3] = "ok" THEN <<FailureMsg(SlackApiError)>> ELSE <<>>)

\* C7: under any interleaving of the handlers of several events, the messages
\* a finished handler has posted are those it posts when it runs alone on
\* the same body with the same say outcomes.
C7_SessionsIndependent ==
    \A s \in Sessions :
        pc[s] = "done" => Msgs(s) = RunAlone(body[s], sayOutcomes[s])

C7_Witness ==
    \E s, t \in Sessions :
        /\ s # t
        /\ pc[s] = "done" /\ pc[t] = "done"
        /\ Len(Msgs(s)) = 2 /\ Len(Msgs(t)) = 2
        /\ body[s].event.user # body[t].event.user
        /\ posted[1].event = s /\ posted[2].event = t /\ posted[3].event = s

C9_QuestionIsTextAfterFirstSpace ==
    \A s \in Sessions :
        /\ ( /\ pc[s] # "parse"
             /\ "event" \in DOMAIN body[s]
             /\ "text" \in DOMAIN body[s].event
             /\ \E i \in 1..Len(body[s].event.text) : body[s].event.text[i] = " " )
           => text_without_mention[s] = AfterFirstSpace(body[s].event.text)
        /\ pc[s] = "reply" =>
               response[s].input = AfterFirstSpace(body[s].event.text)

C9_Witness ==
    \E s \in Sessions :
        /\ pc[s] = "reply"
        /\ \E i \in 1..Len(response[s].input) : response[s].input[i] = " "

\* C10 (as stated): a finished handler of a malformed event has posted exactly
\* one message, a Failure.
C10_MalformedOneFailure ==
    \A s \in Sessions :
        (pc[s] = "done" /\ Malformed(body[s])) =>
            Len(Msgs(s)) = 1 /\ IsFailure(Msgs(s)[1])

\* C10 (amended): for a malformed event the handler posts no acknowledgment
\* and no Success message and calls say exactly once, with a Failure message;
\* the message is posted unless that say raises, and then nothing is posted
\* and the exception leaves the handler.
C10_MalformedFailsBeforeAck ==
    \A s \in Sessions :
        Malformed(body[s]) =>
            /\ \A i \in 1..Len(Msgs(s)) : IsFailure(Msgs(s)[i])
            /\ Len(Msgs(s)) <= 1
            /\ pc[s] = "done" =>
                   /\ Len(sayOutcomes[s]) = 1
                   /\ sayOutcomes[s][1] = "ok" => Len(Msgs(s)) = 1 /\ ~propagated[s]
                   /\ sayOutcomes[s][1] = "raise" => Len(Msgs(s)) = 0 /\ propagated[s]

C10_Witness ==
    \E s \in Sessions :
        /\ pc[s] = "done"
        /\ "event" \in DOMAIN body[s]
        /\ "text" \in DOMAIN body[s].event
        /\ "user" \in DOMAIN body[s].event
        /\ Malformed(body[s])
        /\ Len(Msgs(s)) = 1

====
